---- MODULE Spec2Model ----
(***************************************************************************)
(* Model of the crawl control loop of scraper.py: crawl() and              *)
(* allowed_by_robots(), with the network (page fetch, robots.txt           *)
(* retrieval) as nondeterministic inputs.                                  *)
(*                                                                         *)
(* A URL is the record urlparse() splits it into: scheme, netloc, path.    *)
(* An href found on a page is such a record too, with scheme = "" and/or   *)
(* netloc = "" when the href leaves them out (a relative link).  "host"    *)
(* in the claims is the code's netloc (the authority, port included).      *)
(* A fetched page is its anchors' hrefs in document order (links) and the  *)
(* number of words extract_text() finds in it (words; 0: empty text).      *)
(***************************************************************************)
EXTENDS Integers, Sequences, FiniteSets, TLC

\* ---------------------------------------------------------------- bounds
MaxPagesBound == 2
MaxLinks == 2

\* ---------------------------------------------------------------- inputs
MkURL(s, n, p) == [scheme |-> s, netloc |-> n, path |-> p]

UA == MkURL("http", "example.com", "/a")
UO == MkURL("http", "other.com", "/c")

\* seed lists: one seed, a repeated seed, two seeds on two hosts
SeedLists == { <<UA>>, <<UA, UA>>, <<UA, UO>> }

\* hrefs a page may carry: relative paths, an off-site link, an https link,
\* a link with another scheme
Hrefs ==
    { MkURL("", "", "/a"), MkURL("", "", "/b"),
      UO, MkURL("https", "example.com", "/a"), MkURL("ftp", "example.com", "/a") }

WordCounts == {0, 60}

TokenLimits == {60, 100}

SeqsUpTo(S, n) == UNION { [1..k -> S] : k \in 0..n }

\* the anchor lists a fetched page may carry
LinkLists == SeqsUpTo(Hrefs, MaxLinks)

NoTokenLimit == [is_none |-> TRUE, value |-> 0]

MaxTokensArgs == {NoTokenLimit} \cup { [is_none |-> FALSE, value |-> n] : n \in TokenLimits }

NoDomains == [is_none |-> TRUE, domains |-> {}]

AllowedDomainsArgs ==
    {NoDomains} \cup { [is_none |-> FALSE, domains |-> d] : d \in {{"other.com"}} }

\* what RobotFileParser.read() can meet when it retrieves robots.txt
\*   ok_no_rules    200, content with no rule that applies (empty, malformed)
\*   ok_disallow_b  200, "Disallow: /b" for this user agent
\*   http_403       HTTPError 401/403, handled inside read()
\*   http_404       HTTPError 4xx other than 401/403, handled inside read()
\*   net_error      read() raises (URLError, timeout, undecodable body);
\*                  an HTTPError 5xx returns silently with the same result
RobotsOutcomes == {"ok_no_rules", "ok_disallow_b", "http_403", "http_404", "net_error"}


VARIABLES
    start_urls,      \* crawl() argument
    max_pages,       \* crawl() argument
    max_tokens,      \* crawl() argument: [is_none, value]
    allowed_domains, \* the set computed at crawl start
    seen,            \* set of URLs
    queue,           \* sequence of URLs
    robots_parsers,  \* base -> RobotFileParser state
    token_count,
    out,             \* word counts of the texts written to the output file
    pc,              \* "loop" while the while-loop runs, "done" after it
    popped,          \* history: URLs in the order queue.pop(0) returned them
    pushed,          \* history: URLs in the order they entered queue
    fetched,         \* history: the fetch_url calls in order, [url, ok, words]
    trace,           \* the collaborator calls of the latest iteration, in order
    robots_reads,    \* history: the rp.read() calls in order, [base, rp]
    delayed          \* history: time.sleep(delay) ran since the latest fetch_url call

vars == <<start_urls, max_pages, max_tokens, allowed_domains, seen, queue, robots_parsers,
          token_count, out, pc, popped, pushed, fetched, trace, robots_reads, delayed>>

config == <<start_urls, max_pages, max_tokens, allowed_domains>>

\* ------------------------------------------------------- pure functions
Range(s) == { s[i] : i \in 1..Len(s) }

\* f"{parsed.scheme}://{parsed.netloc}"
Base(url) == <<url.scheme, url.netloc>>

\* urllib.parse.urljoin(url, href) for hrefs with an absolute path
urljoin(url, href) ==
    IF href.scheme # "" /\ href.scheme # url.scheme THEN href
    ELSE IF href.netloc # "" THEN MkURL(url.scheme, href.netloc, href.path)
    ELSE MkURL(url.scheme, url.netloc, href.path)

\* a fresh RobotFileParser()
NewParser ==
    [disallow_all |-> FALSE, allow_all |-> FALSE, last_checked |-> FALSE,
     disallow |-> {}]

\* rp.read() inside try/except: what the parser holds afterwards
ReadRobots(outcome) ==
    CASE outcome = "http_403" -> [NewParser EXCEPT !.disallow_all = TRUE]
      [] outcome = "http_404" -> [NewParser EXCEPT !.allow_all = TRUE]
      [] outcome = "ok_no_rules" -> [NewParser EXCEPT !.last_checked = TRUE]
      [] outcome = "ok_disallow_b" -> [NewParser EXCEPT !.last_checked = TRUE, !.disallow = {"/b"}]
      [] OTHER -> NewParser

\* rp.can_fetch(user_agent, url)
can_fetch(rp, url) ==
    IF rp.disallow_all THEN FALSE
    ELSE IF rp.allow_all THEN TRUE
    ELSE IF ~rp.last_checked THEN FALSE
    ELSE url.path \notin rp.disallow

\* faulty variant: the cached parser is never used
Retrieves_always(parsers, url) == TRUE

\* "if not rp": no parser is cached for the URL's base, robots.txt is retrieved
Retrieves(parsers, url) == Base(url) \notin DOMAIN parsers

\* robots_parsers after allowed_by_robots(url, robots_parsers)
ParsersAfter(parsers, url, outcome) ==
    IF Retrieves(parsers, url)
    THEN [b \in DOMAIN parsers \cup {Base(url)} |->
             IF b = Base(url) THEN ReadRobots(outcome) ELSE parsers[b]]
    ELSE parsers

\* the rp.read() calls after allowed_by_robots(url, robots_parsers)
ReadsAfter(reads, parsers, url, outcome) ==
    IF Retrieves(parsers, url)
    THEN Append(reads, [base |-> Base(url), rp |-> ReadRobots(outcome)])
    ELSE reads

\* faulty variant: the robots answer is ignored
allowed_by_robots_always(parsers, url, outcome) == TRUE

\* the value allowed_by_robots(url, robots_parsers) returns
allowed_by_robots(parsers, url, outcome) ==
    can_fetch(ParsersAfter(parsers, url, outcome)[Base(url)], url)

\* the outcomes the retrieval can have; none is drawn when the base is cached
OutcomesFor(parsers, url) ==
    IF Retrieves(parsers, url) THEN RobotsOutcomes ELSE {"cached"}

\* faulty variant: the hosts of the seeds are allowed next to an explicit list
AllowedDomains_withseeds(seeds, arg) ==
    { seeds[i].netloc : i \in 1..Len(seeds) } \cup arg.domains

\* allowed_domains as computed at the start of crawl()
AllowedDomains(seeds, arg) ==
    IF arg.is_none THEN { seeds[i].netloc : i \in 1..Len(seeds) } ELSE arg.domains

\* faulty variant: the scheme test is left out
FollowLink_noscheme(full, sn, q, allowed) ==
    /\ full.netloc \in allowed
    /\ full \notin sn
    /\ full \notin Range(q)

\* faulty variant: the "not in queue" test is left out
FollowLink_nopending(full, sn, q, allowed) ==
    /\ full.scheme \in {"http", "https"}
    /\ full.netloc \in allowed
    /\ full \notin sn

\* faulty variant: the "not in seen" test is left out
FollowLink_noseen(full, sn, q, allowed) ==
    /\ full.scheme \in {"http", "https"}
    /\ full.netloc \in allowed
    /\ full \notin Range(q)

\* faulty variant: the allowed_domains test is left out
FollowLink_nodomain(full, sn, q, allowed) ==
    /\ full.scheme \in {"http", "https"}
    /\ full \notin sn
    /\ full \notin Range(q)

\* the test of the link loop's body that guards queue.append(full)
FollowLink(full, sn, q, allowed) ==
    /\ full.scheme \in {"http", "https"}
    /\ full.netloc \in allowed
    /\ full \notin sn
    /\ full \notin Range(q)

\* queue after the for-loop over the page's anchors
RECURSIVE PushLinks(_, _, _, _, _)
PushLinks(q, url, links, sn, allowed) ==
    IF links = <<>> THEN q
    ELSE LET full == urljoin(url, Head(links))
         IN  PushLinks(IF FollowLink(full, sn, q, allowed) THEN Append(q, full) ELSE q,
                       url, Tail(links), sn, allowed)

\* faulty variant: queue.pop() takes the newest entry
Pop_last(q) == [url |-> q[Len(q)], rest |-> SubSeq(q, 1, Len(q) - 1)]

\* queue.pop(0): the URL returned and what is left of the queue
Pop(q) == [url |-> Head(q), rest |-> Tail(q)]

\* faulty variant: the test is left out
AlreadySeen_never(url, sn) == FALSE

\* the test "url in seen" right after the pop
AlreadySeen(url, sn) == url \in sn

\* faulty variant: the page budget is off by one
LoopCond_le ==
    /\ queue # <<>>
    /\ Cardinality(seen) <= max_pages
    /\ (max_tokens.is_none \/ token_count < max_tokens.value)

\* faulty variant: the page budget is not tested
LoopCond_nopages ==
    /\ queue # <<>>
    /\ (max_tokens.is_none \/ token_count < max_tokens.value)

\* the while condition
LoopCond ==
    /\ queue # <<>>
    /\ Cardinality(seen) < max_pages
    /\ (max_tokens.is_none \/ token_count < max_tokens.value)

Ev(op, url, ok) == [op |-> op, url |-> url, ok |-> ok]

\* ----------------------------------------------------------------- Init
Init ==
    /\ start_urls \in SeedLists
    /\ max_pages \in 1..MaxPagesBound
    /\ max_tokens \in MaxTokensArgs
    /\ \E arg \in AllowedDomainsArgs : allowed_domains = AllowedDomains(start_urls, arg)
    /\ seen = {}
    /\ queue = start_urls
    /\ robots_parsers = << >>
    /\ token_count = 0
    /\ out = <<>>
    /\ pc = "loop"
    /\ popped = <<>>
    /\ pushed = start_urls
    /\ fetched = <<>>
    /\ trace = <<>>
    /\ robots_reads = <<>>
    /\ delayed = FALSE

\* -------------------------------------------------------------- actions
\* an iteration that pops a URL already in seen
SkipSeen ==
    /\ pc = "loop" /\ LoopCond
    /\ AlreadySeen(Pop(queue).url, seen)
    /\ queue' = Pop(queue).rest
    /\ popped' = Append(popped, Pop(queue).url)
    /\ trace' = <<Ev("pop", Pop(queue).url, TRUE)>>
    /\ UNCHANGED <<config, seen, robots_parsers, token_count, out, pc, pushed, fetched,
                   robots_reads, delayed>>

\* faulty variant: a URL that robots.txt denies is dropped without being
\* added to seen
RobotsDenied_notcounted ==
    /\ pc = "loop" /\ LoopCond
    /\ LET url == Pop(queue).url IN
       /\ ~AlreadySeen(url, seen)
       /\ \E outcome \in OutcomesFor(robots_parsers, url) :
            /\ ~allowed_by_robots(robots_parsers, url, outcome)
            /\ robots_parsers' = ParsersAfter(robots_parsers, url, outcome)
            /\ robots_reads' = ReadsAfter(robots_reads, robots_parsers, url, outcome)
       /\ queue' = Pop(queue).rest
       /\ popped' = Append(popped, url)
       /\ trace' = <<Ev("pop", url, TRUE), Ev("robots", url, FALSE)>>
    /\ UNCHANGED <<config, seen, token_count, out, pc, pushed, fetched, delayed>>

\* an iteration whose URL robots.txt denies
RobotsDenied ==
    /\ pc = "loop" /\ LoopCond
    /\ LET url == Pop(queue).url IN
       /\ ~AlreadySeen(url, seen)
       /\ \E outcome \in OutcomesFor(robots_parsers, url) :
            /\ ~allowed_by_robots(robots_parsers, url, outcome)
            /\ robots_parsers' = ParsersAfter(robots_parsers, url, outcome)
            /\ robots_reads' = ReadsAfter(robots_reads, robots_parsers, url, outcome)
       /\ queue' = Pop(queue).rest
       /\ seen' = seen \cup {url}
       /\ popped' = Append(popped, url)
       /\ trace' = <<Ev("pop", url, TRUE), Ev("robots", url, FALSE)>>
    /\ UNCHANGED <<config, token_count, out, pc, pushed, fetched, delayed>>

\* faulty variant: a URL whose fetch failed is queued again instead of
\* being added to seen
FetchFailed_retry ==
    /\ pc = "loop" /\ LoopCond
    /\ LET url == Pop(queue).url IN
       /\ ~AlreadySeen(url, seen)
       /\ \E outcome \in OutcomesFor(robots_parsers, url) :
            /\ allowed_by_robots(robots_parsers, url, outcome)
            /\ robots_parsers' = ParsersAfter(robots_parsers, url, outcome)
            /\ robots_reads' = ReadsAfter(robots_reads, robots_parsers, url, outcome)
       /\ queue' = Append(Pop(queue).rest, url)
       /\ popped' = Append(popped, url)
       /\ pushed' = Append(pushed, url)
       /\ fetched' = Append(fetched, [url |-> url, ok |-> FALSE, words |-> 0])
       /\ trace' = <<Ev("pop", url, TRUE), Ev("robots", url, TRUE), Ev("fetch", url, FALSE),
                     Ev("sleep", url, TRUE)>>
       /\ delayed' = TRUE
    /\ UNCHANGED <<config, seen, token_count, out, pc>>

\* faulty variant: the exception of fetch_url is not caught, crawl() ends
FetchFailed_aborts ==
    /\ pc = "loop" /\ LoopCond
    /\ LET url == Pop(queue).url IN
       /\ ~AlreadySeen(url, seen)
       /\ \E outcome \in OutcomesFor(robots_parsers, url) :
            /\ allowed_by_robots(robots_parsers, url, outcome)
            /\ robots_parsers' = ParsersAfter(robots_parsers, url, outcome)
            /\ robots_reads' = ReadsAfter(robots_reads, robots_parsers, url, outcome)
       /\ queue' = Pop(queue).rest
       /\ popped' = Append(popped, url)
       /\ fetched' = Append(fetched, [url |-> url, ok |-> FALSE, words |-> 0])
       /\ trace' = <<Ev("pop", url, TRUE), Ev("robots", url, TRUE), Ev("fetch", url, FALSE)>>
       /\ delayed' = FALSE
       /\ pc' = "done"
    /\ UNCHANGED <<config, seen, token_count, out, pushed>>

\* faulty variant: the except branch continues without time.sleep(delay)
FetchFailed_nosleep ==
    /\ pc = "loop" /\ LoopCond
    /\ LET url == Pop(queue).url IN
       /\ ~AlreadySeen(url, seen)
       /\ \E outcome \in OutcomesFor(robots_parsers, url) :
            /\ allowed_by_robots(robots_parsers, url, outcome)
            /\ robots_parsers' = ParsersAfter(robots_parsers, url, outcome)
            /\ robots_reads' = ReadsAfter(robots_reads, robots_parsers, url, outcome)
       /\ queue' = Pop(queue).rest
       /\ seen' = seen \cup {url}
       /\ popped' = Append(popped, url)
       /\ fetched' = Append(fetched, [url |-> url, ok |-> FALSE, words |-> 0])
       /\ trace' = <<Ev("pop", url, TRUE), Ev("robots", url, TRUE), Ev("fetch", url, FALSE)>>
       /\ delayed' = FALSE
    /\ UNCHANGED <<config, token_count, out, pc, pushed>>

\* an iteration whose fetch_url raises
FetchFailed ==
    /\ pc = "loop" /\ LoopCond
    /\ LET url == Pop(queue).url IN
       /\ ~AlreadySeen(url, seen)
       /\ \E outcome \in OutcomesFor(robots_parsers, url) :
            /\ allowed_by_robots(robots_parsers, url, outcome)
            /\ robots_parsers' = ParsersAfter(robots_parsers, url, outcome)
            /\ robots_reads' = ReadsAfter(robots_reads, robots_parsers, url, outcome)
       /\ queue' = Pop(queue).rest
       /\ seen' = seen \cup {url}
       /\ popped' = Append(popped, url)
       /\ fetched' = Append(fetched, [url |-> url, ok |-> FALSE, words |-> 0])
       /\ delayed' = TRUE
       /\ trace' = <<Ev("pop", url, TRUE), Ev("robots", url, TRUE), Ev("fetch", url, FALSE),
                     Ev("sleep", url, TRUE)>>
    /\ UNCHANGED <<config, token_count, out, pc, pushed>>

\* token_count after the page's text was handled (lines 87-93)
TokensAfter(tc, mt, words) ==
    IF words > 0 /\ ~mt.is_none THEN tc + words ELSE tc

\* faulty variant: the break is taken only above the budget
ReachedMaxTokens_gt(tc, mt, words) ==
    /\ words > 0
    /\ ~mt.is_none
    /\ tc + words > mt.value

\* the test that guards the break (lines 87, 90, 94)
ReachedMaxTokens(tc, mt, words) ==
    /\ words > 0
    /\ ~mt.is_none
    /\ TokensAfter(tc, mt, words) >= mt.value

\* faulty variant: out.write runs for an empty text too
OutAfter_always(o, words) == Append(o, words)

\* the output file after the page's text was handled (lines 87-88)
OutAfter(o, words) == IF words > 0 THEN Append(o, words) ELSE o

WriteEv(url, words) == IF words > 0 THEN <<Ev("write", url, TRUE)>> ELSE <<>>

\* faulty variant: the loop body ends without time.sleep(delay)
PageDone_nosleep ==
    /\ pc = "loop" /\ LoopCond
    /\ LET url == Pop(queue).url IN
       /\ ~AlreadySeen(url, seen)
       /\ \E outcome \in OutcomesFor(robots_parsers, url) :
            /\ allowed_by_robots(robots_parsers, url, outcome)
            /\ robots_parsers' = ParsersAfter(robots_parsers, url, outcome)
            /\ robots_reads' = ReadsAfter(robots_reads, robots_parsers, url, outcome)
       /\ \E words \in WordCounts :
            /\ ~ReachedMaxTokens(token_count, max_tokens, words)
            /\ out' = OutAfter(out, words)
            /\ token_count' = TokensAfter(token_count, max_tokens, words)
            /\ fetched' = Append(fetched, [url |-> url, ok |-> TRUE, words |-> words])
            /\ trace' = <<Ev("pop", url, TRUE), Ev("robots", url, TRUE), Ev("fetch", url, TRUE)>>
                         \o WriteEv(url, words)
       /\ seen' = seen \cup {url}
       /\ \E links \in LinkLists :
            /\ queue' = PushLinks(Pop(queue).rest, url, links, seen \cup {url}, allowed_domains)
            /\ pushed' = pushed \o SubSeq(queue', Len(queue), Len(queue'))
       /\ popped' = Append(popped, url)
       /\ delayed' = FALSE
    /\ UNCHANGED <<config, pc>>

\* an iteration that fetches a page and runs to the end of the loop body
PageDone ==
    /\ pc = "loop" /\ LoopCond
    /\ LET url == Pop(queue).url IN
       /\ ~AlreadySeen(url, seen)
       /\ \E outcome \in OutcomesFor(robots_parsers, url) :
            /\ allowed_by_robots(robots_parsers, url, outcome)
            /\ robots_parsers' = ParsersAfter(robots_parsers, url, outcome)
            /\ robots_reads' = ReadsAfter(robots_reads, robots_parsers, url, outcome)
       /\ \E words \in WordCounts :
            /\ ~ReachedMaxTokens(token_count, max_tokens, words)
            /\ out' = OutAfter(out, words)
            /\ token_count' = TokensAfter(token_count, max_tokens, words)
            /\ fetched' = Append(fetched, [url |-> url, ok |-> TRUE, words |-> words])
            /\ trace' = <<Ev("pop", url, TRUE), Ev("robots", url, TRUE), Ev("fetch", url, TRUE)>>
                         \o WriteEv(url, words) \o <<Ev("sleep", url, TRUE)>>
       /\ seen' = seen \cup {url}
       /\ \E links \in LinkLists :
            /\ queue' = PushLinks(Pop(queue).rest, url, links, seen \cup {url}, allowed_domains)
            /\ pushed' = pushed \o SubSeq(queue', Len(queue), Len(queue'))
       /\ popped' = Append(popped, url)
       /\ delayed' = TRUE
    /\ UNCHANGED <<config, pc>>

\* an iteration whose page brings token_count to max_tokens: the break
TokenBreak ==
    /\ pc = "loop" /\ LoopCond
    /\ LET url == Pop(queue).url IN
       /\ ~AlreadySeen(url, seen)
       /\ \E outcome \in OutcomesFor(robots_parsers, url) :
            /\ allowed_by_robots(robots_parsers, url, outcome)
            /\ robots_parsers' = ParsersAfter(robots_parsers, url, outcome)
            /\ robots_reads' = ReadsAfter(robots_reads, robots_parsers, url, outcome)
       /\ \E words \in WordCounts :
            /\ ReachedMaxTokens(token_count, max_tokens, words)
            /\ out' = OutAfter(out, words)
            /\ token_count' = TokensAfter(token_count, max_tokens, words)
            /\ fetched' = Append(fetched, [url |-> url, ok |-> TRUE, words |-> words])
            /\ trace' = <<Ev("pop", url, TRUE), Ev("robots", url, TRUE), Ev("fetch", url, TRUE)>>
                         \o WriteEv(url, words) \o <<Ev("break", url, TRUE)>>
       /\ queue' = Pop(queue).rest
       /\ popped' = Append(popped, url)
       /\ delayed' = FALSE
       /\ pc' = "done"
    /\ UNCHANGED <<config, seen, pushed>>

\* the while condition is false: the loop is left
LoopExit ==
    /\ pc = "loop" /\ ~LoopCond
    /\ pc' = "done"
    /\ trace' = <<>>
    /\ UNCHANGED <<config, seen, queue, robots_parsers, token_count, out, popped, pushed, fetched,
                   robots_reads, delayed>>

Next == SkipSeen \/ RobotsDenied \/ FetchFailed \/ PageDone \/ TokenBreak \/ LoopExit

Spec == Init /\ [][Next]_vars

\* the loop is one thread that keeps running: a step that can be taken is taken
FairSpec == Init /\ [][Next]_vars /\ WF_vars(Next)

\* ------------------------------------------------------------- helpers
Paths == {"/a", "/b"}

FetchedURLs == { fetched[i].url : i \in 1..Len(fetched) }

HasEv(op) == \E i \in 1..Len(trace) : trace[i].op = op

\* a parser whose read() did not get a robots.txt to parse
RetrievalFailed(rp) == ~rp.last_checked

NoDup(s) == \A i, j \in 1..Len(s) : s[i] = s[j] => i = j

\* --------------------------------------------------------------- claims

\* C1: for every origin whose robots.txt retrieval failed, the robots check
\* returns true for every URL under that origin, on the first and on every
\* later call (the answer is computed from the cached parser).
C1_FailOpen ==
    \A b \in DOMAIN robots_parsers :
        RetrievalFailed(robots_parsers[b]) =>
            \A p \in Paths : can_fetch(robots_parsers[b], MkURL(b[1], b[2], p))

\* C2: no URL is passed to fetch_url twice, whatever its first outcome.
C2_FetchedOnce ==
    \A i, j \in 1..Len(fetched) : fetched[i].url = fetched[j].url => i = j

\* a URL was popped twice and fetched once
C2_Witness ==
    \E i, j \in 1..Len(popped) :
        /\ i < j
        /\ popped[i] = popped[j]
        /\ Cardinality({ k \in 1..Len(fetched) : fetched[k].url = popped[i] }) = 1

\* token_count before the latest iteration
TokensBefore == token_count - (IF HasEv("write") THEN out[Len(out)] ELSE 0)

\* C3: with max_tokens set, a fetch is issued only while token_count is
\* below max_tokens; once a page brings token_count to max_tokens or above
\* the run ends at that page (break, nothing popped after it) and the
\* overshoot is less than that page's word count; with max_tokens = 100 and
\* pages of 60 words the run ends after exactly 2 written pages.
C3_TokenBudget ==
    ~max_tokens.is_none =>
        /\ HasEv("fetch") => TokensBefore < max_tokens.value
        /\ token_count >= max_tokens.value =>
              /\ pc = "done"
              /\ HasEv("break")
              /\ out # <<>>
              /\ token_count - out[Len(out)] < max_tokens.value
        /\ (max_tokens.value = 100 /\ token_count >= 100) =>
              /\ Len(out) = 2
              /\ token_count = 120

\* the budget of 100 was reached by the second page of 60 words, with a
\* URL left in the queue
C3_Witness ==
    /\ ~max_tokens.is_none
    /\ max_tokens.value = 100
    /\ token_count = 120
    /\ pc = "done"
    /\ Len(fetched) = 2
    /\ queue # <<>>

\* no token budget, nothing denied by robots, no fetch failed, and a URL
\* not yet seen is still pending
C4_Case ==
    /\ max_tokens.is_none
    /\ seen \subseteq FetchedURLs
    /\ \A i \in 1..Len(fetched) : fetched[i].ok
    /\ \E i \in 1..Len(queue) : queue[i] \notin seen

\* C4: in that case the finished run has fetched exactly max_pages pages and
\* the pending URLs not seen were not fetched.
C4_PageCount ==
    (pc = "done" /\ C4_Case) =>
        /\ Len(fetched) = max_pages
        /\ \A i \in 1..Len(queue) : queue[i] \notin seen => queue[i] \notin FetchedURLs

C4_Witness ==
    /\ pc = "done"
    /\ C4_Case
    /\ max_pages = MaxPagesBound
    /\ Len(fetched) = max_pages

\* C5: every URL popped from the queue is in seen, at every iteration
\* boundary and at the end of the run.
C5_PoppedVisited == Range(popped) \subseteq seen

\* the domain filter of the claim
C6_Eligible(u) == u.scheme \in {"http", "https"} /\ u.netloc \in allowed_domains

C7_FIFO == pushed = popped \o queue

\* a discovered link was popped after the seed, and a link is still pending
C7_Witness ==
    /\ Len(popped) >= 2
    /\ popped[2] \notin Range(start_urls)
    /\ queue # <<>>

C9_NoRevisit ==
    [][\A i \in (Len(pushed) + 1)..Len(pushed') : pushed'[i] \notin seen']_vars

\* two pages were fetched, links were appended, none of them a seen URL
C9_Witness ==
    /\ Len(fetched) = 2
    /\ \A i \in 1..Len(fetched) : fetched[i].ok
    /\ Len(pushed) > Len(start_urls) + 1
    /\ Range(queue) \cap seen = {}

\* the cached robots answer for a URL
RobotsAnswer(u) == can_fetch(robots_parsers[Base(u)], u)

\* C10: a fetch is issued only after the robots check of the same
\* iteration allowed the URL; a denied URL is not fetched, is in seen, and
\* its iteration writes nothing, appends nothing and leaves the loop running.
C10_RobotsFirst ==
    /\ \A u \in FetchedURLs : Base(u) \in DOMAIN robots_parsers /\ RobotsAnswer(u)
    /\ \A i \in 1..Len(trace) :
          trace[i].op = "fetch" =>
              \E j \in 1..(i - 1) : trace[j] = Ev("robots", trace[i].url, TRUE)
    /\ \A i \in 1..Len(popped) :
          (Base(popped[i]) \in DOMAIN robots_parsers /\ ~RobotsAnswer(popped[i])) =>
              popped[i] \in seen /\ popped[i] \notin FetchedURLs
    /\ (\E i \in 1..Len(trace) : trace[i].op = "robots" /\ ~trace[i].ok) =>
          /\ trace = <<Ev("pop", popped[Len(popped)], TRUE),
                       Ev("robots", popped[Len(popped)], FALSE)>>
          /\ pc = "loop"

\* a URL was denied and the next pending URL was fetched
C10_Witness ==
    /\ Len(popped) = 2
    /\ Base(popped[1]) \in DOMAIN robots_parsers
    /\ ~RobotsAnswer(popped[1])
    /\ popped[1] \in seen
    /\ Len(fetched) = 1
    /\ fetched[1].url = popped[2]
    /\ fetched[1].ok

\* the step is an iteration whose fetch_url call failed
FailedFetchStep ==
    /\ Len(fetched') = Len(fetched) + 1
    /\ ~fetched'[Len(fetched')].ok

\* C11: an iteration whose page fetch fails does not end the run: its URL
\* is in seen afterwards, nothing is written, token_count is unchanged, the
\* queue only loses the popped URL, and the loop is still running.
C11_FailureIsolated ==
    [][FailedFetchStep =>
          /\ fetched'[Len(fetched')].url \in seen'
          /\ out' = out
          /\ token_count' = token_count
          /\ queue' = Tail(queue)
          /\ pushed' = pushed
          /\ pc' = "loop"]_vars

\* a fetch failed and the next pending URL was fetched and written
C11_Witness ==
    /\ Len(fetched) = 2
    /\ ~fetched[1].ok
    /\ fetched[1].url \in seen
    /\ fetched[2].ok
    /\ Len(out) = 1

\* C12 as stated: every iteration that handled a URL (robots check made)
\* and left the loop running ended with time.sleep(delay).
C12_DelayAfterEveryURL ==
    (pc = "loop" /\ HasEv("robots")) => trace[Len(trace)].op = "sleep"

\* C12 amended: an iteration that called fetch_url and left the loop
\* running ended with time.sleep(delay); an iteration whose URL robots.txt
\* denied did not sleep.
C12_DelayAfterFetch ==
    /\ (pc = "loop" /\ HasEv("fetch")) => trace[Len(trace)].op = "sleep"
    /\ (\E i \in 1..Len(trace) : trace[i].op = "robots" /\ ~trace[i].ok) => ~HasEv("sleep")

\* a failed fetch was followed by the delay, after an earlier iteration
C12_Witness ==
    /\ Len(popped) = 2
    /\ pc = "loop"
    /\ \E i \in 1..Len(trace) : trace[i].op = "fetch" /\ ~trace[i].ok
    /\ trace[Len(trace)].op = "sleep"

UB == MkURL("http", "example.com", "/b")

\* the scenario's run: seed a alone, max_pages = 2, no allow-list given, no
\* token budget, nothing denied by robots, no fetch failed
C13_Case ==
    /\ start_urls = <<UA>>
    /\ max_pages = 2
    /\ allowed_domains = {"example.com"}
    /\ max_tokens.is_none
    /\ seen \subseteq FetchedURLs
    /\ \A i \in 1..Len(fetched) : fetched[i].ok

\* C13: in the scenario, whatever page a carries, http://other.com/c never
\* enters the queue; when a's first followed link is b, the finished run
\* has fetched exactly a and then b, whatever b links to.
C13_Scenario ==
    C13_Case =>
        /\ UO \notin Range(pushed)
        /\ (pc = "done" /\ Len(pushed) >= 2 /\ pushed[2] = UB) =>
              /\ Len(fetched) = 2
              /\ fetched[1].url = UA
              /\ fetched[2].url = UB

\* a and b were fetched, the run is over, and a link found on b is pending
C13_Witness ==
    /\ C13_Case
    /\ pc = "done"
    /\ Len(fetched) = 2
    /\ fetched[2].url = UB
    /\ Len(popped) = 2
    /\ queue # <<>>
    /\ queue[1].netloc = "example.com"

\* C14: robots.txt is retrieved at most once per base, also when the
\* retrieval failed, and the parser cached for a base is the one that
\* retrieval produced: it is never replaced, and the cache holds exactly
\* the bases retrieved.
C14_RobotsCacheWriteOnce ==
    /\ \A i, j \in 1..Len(robots_reads) :
          robots_reads[i].base = robots_reads[j].base => i = j
    /\ DOMAIN robots_parsers = { robots_reads[i].base : i \in 1..Len(robots_reads) }
    /\ \A i \in 1..Len(robots_reads) :
          robots_parsers[robots_reads[i].base] = robots_reads[i].rp

\* two URLs of one base were checked after a failed retrieval, with one
\* retrieval made
C14_Witness ==
    /\ Len(robots_reads) = 1
    /\ RetrievalFailed(robots_reads[1].rp)
    /\ Len(popped) = 2
    /\ popped[1] # popped[2]
    /\ Base(popped[1]) = Base(popped[2])
    /\ HasEv("robots")

\* the condition of the claim for starting an iteration
C15_Continue ==
    /\ Len(queue) > 0
    /\ Cardinality(seen) < max_pages
    /\ (max_tokens.is_none \/ token_count < max_tokens.value)

\* the terminal conditions of the claim
C15_Terminal ==
    \/ Len(queue) = 0
    \/ Cardinality(seen) >= max_pages
    \/ (~max_tokens.is_none /\ token_count >= max_tokens.value)

\* C15: an iteration starts (a URL is popped) only when the queue is not
\* empty, fewer than max_pages URLs are seen and the token budget, if set,
\* is not reached; the loop is left at its test only when that fails; so
\* whenever the run is over, one of the three terminal conditions holds.
C15_LoopCondition ==
    /\ [][(popped' # popped) => C15_Continue]_vars
    /\ [][(pc = "loop" /\ pc' = "done" /\ popped' = popped) => ~C15_Continue]_vars
    /\ [](pc = "done" => C15_Terminal)

\* the run ended on the page budget with URLs still pending
C15_Witness ==
    /\ pc = "done"
    /\ Len(queue) > 0
    /\ Cardinality(seen) = max_pages
    /\ max_tokens.is_none
    /\ Len(popped) >= 2

\* C16: the run ends: the loop is left after at most max_pages iterations
\* that handle a URL plus one per repeated seed.
C16_Terminates ==
    /\ [](Len(popped) <= max_pages + Len(start_urls) - 1)
    /\ <>(pc = "done")

\* the run is over after the longest run of iterations: a repeated seed
\* was dropped, max_pages URLs were handled, and links are still pending
C16_Witness ==
    /\ pc = "done"
    /\ Len(popped) = max_pages + Len(start_urls) - 1
    /\ Len(start_urls) = 2
    /\ Len(queue) > 0

\* a popped URL that was not fetched, or whose fetch failed
DeniedOrFailed(u) ==
    \/ u \notin FetchedURLs
    \/ \E i \in 1..Len(fetched) : fetched[i].url = u /\ ~fetched[i].ok

\* C17: in every state at most max_pages URLs are visited and at most
\* max_pages page fetches were issued; a URL that robots.txt denied or whose
\* fetch failed is in seen and so counts toward max_pages like a fetched one.
C17_PageBudget ==
    /\ Cardinality(seen) <= max_pages
    /\ Len(fetched) <= max_pages
    /\ seen \subseteq Range(popped)
    /\ \A u \in Range(popped) : DeniedOrFailed(u) => u \in seen

\* the page budget was used up by one denied URL and one failed fetch
C17_Witness ==
    /\ max_pages = 2
    /\ Cardinality(seen) = 2
    /\ Len(fetched) = 1 /\ ~fetched[1].ok
    /\ Len(popped) = 2
    /\ popped[1] \notin FetchedURLs
    /\ pc = "done"

\* C18: a page fetch that is not the first of the run is issued only after
\* time.sleep(delay) ran since the page fetch before it.
C18_DelayBetweenFetches ==
    [][Len(fetched') > Len(fetched) => (Len(fetched) = 0 \/ delayed)]_vars

\* a second page fetch was issued, with an iteration that fetched nothing
\* between it and the first
C18_Witness ==
    /\ Len(fetched) = 2
    /\ Len(popped) = 3
    /\ popped[2] # fetched[2].url

\* the hosts of the seed URLs
SeedHosts == { start_urls[i].netloc : i \in 1..Len(start_urls) }

\* C19: a fetched URL is a seed or has scheme http/https and a netloc in
\* allowed_domains; allowed_domains is the explicit list if one was given and
\* the set of seed hosts otherwise, and no step changes it; a seed that was
\* popped and that robots.txt allows was fetched, whatever its host.
C19_FetchedAllowed ==
    /\ [](\A u \in FetchedURLs : u \in Range(start_urls) \/ C6_Eligible(u))
    /\ [](\/ allowed_domains = SeedHosts
          \/ \E arg \in AllowedDomainsArgs : ~arg.is_none /\ allowed_domains = arg.domains)
    /\ [][allowed_domains' = allowed_domains]_vars
    /\ [](\A u \in Range(popped) \cap Range(start_urls) : RobotsAnswer(u) => u \in FetchedURLs)

\* a seed outside the explicit allow-list was fetched, and so was a link of
\* its page that the list allows
C19_Witness ==
    /\ "example.com" \notin allowed_domains
    /\ Len(fetched) = 2
    /\ fetched[1].url = UA /\ fetched[1].ok
    /\ fetched[2].url = UO /\ UO \notin Range(start_urls)

RECURSIVE SumSeq(_)
SumSeq(s) == IF s = <<>> THEN 0 ELSE Head(s) + SumSeq(Tail(s))

\* the word counts of the pages fetched with a non-empty text, in fetch order
WrittenWords ==
    LET pages == SelectSeq(fetched, LAMBDA e : e.ok /\ e.words > 0)
    IN  [i \in 1..Len(pages) |-> pages[i].words]

\* C20 as stated: the output holds one entry per page fetched with a
\* non-empty text, in fetch order, and token_count is the sum of the word
\* counts of the entries written.
C20_CounterIsSum ==
    /\ out = WrittenWords
    /\ token_count = SumSeq(out)

\* C20 as amended: the output holds one entry per page fetched with a
\* non-empty text, in fetch order, and nothing else; token_count is the sum
\* of the word counts of the entries written when max_tokens is set, and
\* stays 0 when max_tokens is None.
C20_SinkWrites ==
    /\ out = WrittenWords
    /\ token_count = IF max_tokens.is_none THEN 0 ELSE SumSeq(out)

\* with a token limit, a page with text was written and counted and a page
\* with an empty text was not
C20_Witness ==
    /\ ~max_tokens.is_none
    /\ Len(fetched) = 2
    /\ fetched[1].ok /\ fetched[1].words > 0
    /\ fetched[2].ok /\ fetched[2].words = 0
    /\ Len(out) = 1
    /\ token_count = fetched[1].words

====
